---- MODULE Spec2Model ----
(***************************************************************************)
(* Model of home1.py: the Field validators (Phone, Birthday), Record,      *)
(* AddressBook (a UserDict keyed by name, insertion ordered), the          *)
(* upcoming-birthday computation and the command loop of main().           *)
(*                                                                         *)
(* Strings are sequences of characters; a character is a one-symbol TLA+   *)
(* string, except "U+0663" which stands for the single non-ASCII decimal   *)
(* digit ARABIC-INDIC DIGIT THREE (Python's \d and int() accept it).       *)
(***************************************************************************)
EXTENDS Integers, Sequences, FiniteSets, TLC

VARIABLES book, before, pc, command, outcome, call, today, upcoming

vars == <<book, before, pc, command, outcome, call, today, upcoming>>

(***************************************************************************)
(* Bounds of the model.                                                    *)
(***************************************************************************)
\* most phones one record holds (guard of the operations that append)
MaxPhones == 2
\* the clock (datetime.today()) ranges over every day of FirstYear..LastYear
FirstYear == 2023
LastYear == 2024

(***************************************************************************)
(* Characters and strings.                                                 *)
(***************************************************************************)
AsciiDigits == {"0", "1", "2", "3", "4", "5", "6", "7", "8", "9"}

\* the characters the regular expression class \d matches in a str pattern
DecimalDigits == AsciiDigits \cup {"U+0663"}

\* int() of one decimal digit
DigitValue(c) ==
    CASE c = "0" -> 0 [] c = "1" -> 1 [] c = "2" -> 2 [] c = "3" -> 3
      [] c = "4" -> 4 [] c = "5" -> 5 [] c = "6" -> 6 [] c = "7" -> 7
      [] c = "8" -> 8 [] c = "9" -> 9 [] c = "U+0663" -> 3

DigitChar(n) ==
    CASE n = 0 -> "0" [] n = 1 -> "1" [] n = 2 -> "2" [] n = 3 -> "3"
      [] n = 4 -> "4" [] n = 5 -> "5" [] n = 6 -> "6" [] n = 7 -> "7"
      [] n = 8 -> "8" [] n = 9 -> "9"

\* int(s) for a string of decimal digits
RECURSIVE ToInt(_)
ToInt(s) ==
    IF s = <<>> THEN 0
    ELSE 10 * ToInt(SubSeq(s, 1, Len(s) - 1)) + DigitValue(s[Len(s)])

\* s.split('.'): the pieces of s between the dots
RECURSIVE SplitDots(_, _, _)
SplitDots(s, i, piece) ==
    IF i > Len(s) THEN <<piece>>
    ELSE IF s[i] = "." THEN <<piece>> \o SplitDots(s, i + 1, <<>>)
    ELSE SplitDots(s, i + 1, Append(piece, s[i]))

Split(s) == SplitDots(s, 1, <<>>)

\* '%02d' / '%04d' of a non-negative number
Pad2(n) == <<DigitChar((n \div 10) % 10), DigitChar(n % 10)>>

Pad4(n) == Pad2(n \div 100) \o Pad2(n % 100)

(***************************************************************************)
(* The calendar of datetime (proleptic Gregorian).                         *)
(***************************************************************************)
IsLeap(y) == y % 4 = 0 /\ (y % 100 # 0 \/ y % 400 = 0)

DaysInMonth(y, m) ==
    IF m = 2 THEN (IF IsLeap(y) THEN 29 ELSE 28)
    ELSE IF m \in {4, 6, 9, 11} THEN 30 ELSE 31

\* datetime(year, month, day) succeeds (it raises ValueError otherwise)
DateExists(y, m, d) ==
    /\ y \in 1..9999
    /\ m \in 1..12
    /\ d \in 1..DaysInMonth(y, m)

Date(y, m, d) == [year |-> y, month |-> m, day |-> d]

DaysBeforeYear(y) ==
    (y - 1) * 365 + (y - 1) \div 4 - (y - 1) \div 100 + (y - 1) \div 400

RECURSIVE DaysBeforeMonth(_, _)
DaysBeforeMonth(y, m) ==
    IF m = 1 THEN 0 ELSE DaysBeforeMonth(y, m - 1) + DaysInMonth(y, m - 1)

\* date.toordinal()
Ordinal(dt) == DaysBeforeYear(dt.year) + DaysBeforeMonth(dt.year, dt.month) + dt.day

\* date.weekday(): Monday is 0, Sunday is 6
Weekday(dt) == (Ordinal(dt) + 6) % 7

\* date < date
DateBefore(a, b) ==
    \/ a.year < b.year
    \/ a.year = b.year /\ a.month < b.month
    \/ a.year = b.year /\ a.month = b.month /\ a.day < b.day

\* (a - b).days
DaysBetween(a, b) == Ordinal(a) - Ordinal(b)

\* the day after dt
NextDay(dt) ==
    IF dt.day < DaysInMonth(dt.year, dt.month) THEN Date(dt.year, dt.month, dt.day + 1)
    ELSE IF dt.month < 12 THEN Date(dt.year, dt.month + 1, 1)
    ELSE Date(dt.year + 1, 1, 1)

\* dt + timedelta(days=k), k >= 0
RECURSIVE PlusDays(_, _)
PlusDays(dt, k) == IF k = 0 THEN dt ELSE PlusDays(NextDay(dt), k - 1)

\* date.strftime('%d.%m.%Y')
Strftime(dt) == Pad2(dt.day) \o <<".">> \o Pad2(dt.month) \o <<".">> \o Pad4(dt.year)

(***************************************************************************)
(* Field validators.                                                       *)
(***************************************************************************)
PhoneLen == 10

\* re.fullmatch(r"\d{10}", value)
PhoneMatches(value) ==
    /\ Len(value) = PhoneLen
    /\ \A i \in 1..Len(value) : value[i] \in DecimalDigits

\* re.fullmatch(r"\d{2}\.\d{2}\.\d{4}", value)
BirthdayMatches(value) ==
    /\ Len(value) = 10
    /\ \A i \in {1, 2, 4, 5, 7, 8, 9, 10} : value[i] \in DecimalDigits
    /\ value[3] = "." /\ value[6] = "."

\* day, month, year = map(int, value.split('.'))
DayOf(value) == ToInt(Split(value)[1])

MonthOf(value) == ToInt(Split(value)[2])

YearOf(value) == ToInt(Split(value)[3])

\* Birthday(value): "ok", or the ValueError it raises
BirthdayInit(value) ==
    IF ~BirthdayMatches(value) THEN "InvalidDateFormat"
    ELSE IF ~DateExists(YearOf(value), MonthOf(value), DayOf(value)) THEN "InvalidDate"
    ELSE "ok"

(***************************************************************************)
(* Record: a name, a list of Phone values, an optional Birthday value.     *)
(* A method's value here is [rec |-> the record after the call,            *)
(* result |-> "ok" or the exception raised].                               *)
(***************************************************************************)
NoBirthday == <<>>

\* Record(name)
NewRecord(name) == [name |-> name, phones |-> <<>>, birthday |-> NoBirthday]

\* Phone(value): "ok", or the ValueError it raises
PhoneInit(value) == IF PhoneMatches(value) THEN "ok" ELSE "InvalidPhone"

\* an add_phone that stores the string without building a Phone from it
AddPhoneUnchecked(rec, phone_number) ==
    [rec |-> [rec EXCEPT !.phones = Append(@, phone_number)], result |-> "ok"]

\* an add_phone that keeps only the phone just given
AddPhoneReplaces(rec, phone_number) ==
    IF PhoneInit(phone_number) # "ok"
    THEN [rec |-> rec, result |-> PhoneInit(phone_number)]
    ELSE [rec |-> [rec EXCEPT !.phones = <<phone_number>>], result |-> "ok"]

\* Record.add_phone

add_phone(rec, phone_number) ==
    IF PhoneInit(phone_number) # "ok"
    THEN [rec |-> rec, result |-> PhoneInit(phone_number)]
    ELSE [rec |-> [rec EXCEPT !.phones = Append(@, phone_number)], result |-> "ok"]

\* [phone for phone in phones if phone.value != phone_number]
RECURSIVE Without(_, _)
Without(phones, phone_number) ==
    IF phones = <<>> THEN <<>>
    ELSE IF Head(phones) # phone_number
         THEN <<Head(phones)>> \o Without(Tail(phones), phone_number)
         ELSE Without(Tail(phones), phone_number)

\* position of the first phone equal to old_number, 0 when the loop finds none
RECURSIVE FirstIndex(_, _, _)
FirstIndex(phones, old_number, i) ==
    IF i > Len(phones) THEN 0
    ELSE IF phones[i] = old_number THEN i
    ELSE FirstIndex(phones, old_number, i + 1)

\* a remove_phone that drops the first match only
RemoveFirstOnly(rec, phone_number) ==
    LET i == FirstIndex(rec.phones, phone_number, 1) IN
    [rec |-> [rec EXCEPT !.phones =
                 IF i = 0 THEN @
                 ELSE SubSeq(@, 1, i - 1) \o SubSeq(@, i + 1, Len(@))],
     result |-> "ok"]

\* Record.remove_phone
remove_phone(rec, phone_number) ==
    [rec |-> [rec EXCEPT !.phones = Without(@, phone_number)], result |-> "ok"]

\* an edit_phone that rewrites every match
EditAllMatches(rec, old_number, new_number) ==
    IF FirstIndex(rec.phones, old_number, 1) = 0
    THEN [rec |-> rec, result |-> "PhoneNotFound"]
    ELSE IF PhoneInit(new_number) # "ok"
    THEN [rec |-> rec, result |-> PhoneInit(new_number)]
    ELSE [rec |-> [rec EXCEPT !.phones =
                      [j \in 1..Len(@) |-> IF @[j] = old_number THEN new_number ELSE @[j]]],
          result |-> "ok"]

\* an edit_phone that validates the new number before it looks for the old one
EditValidatesFirst(rec, old_number, new_number) ==
    IF PhoneInit(new_number) # "ok"
    THEN [rec |-> rec, result |-> PhoneInit(new_number)]
    ELSE IF FirstIndex(rec.phones, old_number, 1) = 0
    THEN [rec |-> rec, result |-> "PhoneNotFound"]
    ELSE [rec |-> [rec EXCEPT !.phones[FirstIndex(rec.phones, old_number, 1)] = new_number],
          result |-> "ok"]

\* Record.edit_phone
edit_phone(rec, old_number, new_number) ==
    LET i == FirstIndex(rec.phones, old_number, 1) IN
    IF i = 0 THEN [rec |-> rec, result |-> "PhoneNotFound"]
    ELSE IF PhoneInit(new_number) # "ok"
    THEN [rec |-> rec, result |-> PhoneInit(new_number)]
    ELSE [rec |-> [rec EXCEPT !.phones[i] = new_number], result |-> "ok"]

\* Record.add_birthday
add_birthday(rec, date) ==
    IF BirthdayInit(date) # "ok"
    THEN [rec |-> rec, result |-> BirthdayInit(date)]
    ELSE [rec |-> [rec EXCEPT !.birthday = date], result |-> "ok"]

(***************************************************************************)
(* AddressBook: self.data, a dict from name to Record.  The dict keeps     *)
(* insertion order, so it is a sequence of records with distinct names.    *)
(***************************************************************************)
\* position of the record stored under name, 0 when there is none
RECURSIVE IndexOf(_, _, _)
IndexOf(data, name, i) ==
    IF i > Len(data) THEN 0
    ELSE IF data[i].name = name THEN i
    ELSE IndexOf(data, name, i + 1)

\* AddressBook.find: self.data.get(name)
Has(data, name) == IndexOf(data, name, 1) # 0

find(data, name) == data[IndexOf(data, name, 1)]

\* AddressBook.add_record: self.data[record.name.value] = record
add_record(data, record) ==
    IF Has(data, record.name)
    THEN [data EXCEPT ![IndexOf(data, record.name, 1)] = record]
    ELSE Append(data, record)

\* AddressBook.delete
delete(data, name) ==
    IF Has(data, name)
    THEN SubSeq(data, 1, IndexOf(data, name, 1) - 1)
           \o SubSeq(data, IndexOf(data, name, 1) + 1, Len(data))
    ELSE data

\* the book after a method of the record stored under name changed that record
Stored(data, name, rec) == [data EXCEPT ![IndexOf(data, name, 1)] = rec]

(***************************************************************************)
(* AddressBook.get_upcoming_birthdays.  Its value is                       *)
(* [raised |-> a datetime(...) call raised ValueError,                     *)
(*  none |-> it returned "No upcoming birthdays.",                         *)
(*  lines |-> the lines "<name> - <dd.mm.yyyy>" it returned, in order].    *)
(***************************************************************************)
Window == 7

NoResult == [raised |-> FALSE, none |-> FALSE, lines |-> <<>>]

Raised == [raised |-> TRUE, none |-> FALSE, lines |-> <<>>]

\* a shift that moves Saturday and Sunday alike by two days
ShiftAlwaysTwo(birthday_this_year) ==
    IF Weekday(birthday_this_year) >= 5
    THEN PlusDays(birthday_this_year, 2)
    ELSE birthday_this_year

\* greeting_day: moved to Monday when it falls on a weekend
GreetingDay(birthday_this_year) ==
    IF Weekday(birthday_this_year) >= 5
    THEN PlusDays(birthday_this_year, 7 - Weekday(birthday_this_year))
    ELSE birthday_this_year

\* the loop over self.data.values(), from record i on, upcoming being the list so far
RECURSIVE UpcomingFrom(_, _, _, _)
UpcomingFrom(data, i, now, lines) ==
    IF i > Len(data) THEN [raised |-> FALSE, none |-> lines = <<>>, lines |-> lines]
    ELSE IF data[i].birthday = NoBirthday THEN UpcomingFrom(data, i + 1, now, lines)
    ELSE
      LET day == DayOf(data[i].birthday)
          month == MonthOf(data[i].birthday)
      IN
      IF ~DateExists(now.year, month, day) THEN Raised
      ELSE IF DateBefore(Date(now.year, month, day), now)
              /\ ~DateExists(now.year + 1, month, day) THEN Raised
      ELSE
        LET birthday_this_year ==
                IF DateBefore(Date(now.year, month, day), now)
                THEN Date(now.year + 1, month, day)
                ELSE Date(now.year, month, day)
            days_until == DaysBetween(birthday_this_year, now)
        IN
        IF days_until <= Window
        THEN UpcomingFrom(data, i + 1, now,
                 Append(lines, [name |-> data[i].name,
                                date |-> Strftime(GreetingDay(birthday_this_year))]))
        ELSE UpcomingFrom(data, i + 1, now, lines)

get_upcoming_birthdays(data, now) == UpcomingFrom(data, 1, now, <<>>)

(***************************************************************************)
(* The words of the command line, and the strings the model feeds in.      *)
(***************************************************************************)
KwClose == <<"c", "l", "o", "s", "e">>

KwExit == <<"e", "x", "i", "t">>

KwHello == <<"h", "e", "l", "l", "o">>

KwAdd == <<"a", "d", "d">>

KwChange == <<"c", "h", "a", "n", "g", "e">>

KwPhone == <<"p", "h", "o", "n", "e">>

KwAll == <<"a", "l", "l">>

KwAddBirthday == <<"a", "d", "d", "-", "b", "i", "r", "t", "h", "d", "a", "y">>

KwShowBirthday == <<"s", "h", "o", "w", "-", "b", "i", "r", "t", "h", "d", "a", "y">>

KwBirthdays == <<"b", "i", "r", "t", "h", "d", "a", "y", "s">>

Keywords == {KwClose, KwExit, KwHello, KwAdd, KwChange, KwPhone, KwAll,
             KwAddBirthday, KwShowBirthday, KwBirthdays}

\* first words that are no command: "ADD" (the comparison is case sensitive), "quit"
OtherWords == {<<"A", "D", "D">>, <<"q", "u", "i", "t">>}

Bob == <<"b", "o", "b">>

Ann == <<"a", "n", "n">>

Names == {Bob, Ann}

\* "1234567890"
P1 == <<"1", "2", "3", "4", "5", "6", "7", "8", "9", "0">>

\* "2222222222"
P2 == [i \in 1..10 |-> "2"]

\* ten decimal digits, one of them not ASCII
PNonAscii == <<"1", "2", "U+0663", "4", "5", "6", "7", "8", "9", "0">>

\* "12345", "12345678901", "12345abcde"
PShort == <<"1", "2", "3", "4", "5">>

PLong == P1 \o <<"1">>

PAlpha == <<"1", "2", "3", "4", "5", "a", "b", "c", "d", "e">>

\* "29.02.2020", "29.02.2021", "30.02.2021", "2021-02-01"
DLeap == <<"2", "9", ".", "0", "2", ".", "2", "0", "2", "0">>

DNoLeap == <<"2", "9", ".", "0", "2", ".", "2", "0", "2", "1">>

DNoSuchDay == <<"3", "0", ".", "0", "2", ".", "2", "0", "2", "1">>

DIso == <<"2", "0", "2", "1", "-", "0", "2", "-", "0", "1">>

NoCommand == <<>>

NoCall == [op |-> "none", name |-> <<>>, a |-> <<>>, b |-> <<>>]

NoDate == Date(0, 0, 0)

\* every day of the years FirstYear..LastYear
Todays ==
    {dt \in [year : FirstYear..LastYear, month : 1..12, day : 1..31] :
        DateExists(dt.year, dt.month, dt.day)}

Init ==
    /\ book = <<>>
    /\ before = <<>>
    /\ pc = "loop"
    /\ command = NoCommand
    /\ outcome = "none"
    /\ call = NoCall
    /\ today = NoDate
    /\ upcoming = NoResult

(***************************************************************************)
(* The methods of Record and AddressBook, called on the book directly.     *)
(* call records the method and its arguments, outcome what it raised,       *)
(* before the book as it was when the method was called.                   *)
(***************************************************************************)
PhoneInputs == {P1, PNonAscii, PShort, PLong, PAlpha}

DateInputs == {DLeap, DNoLeap, DNoSuchDay, DIso}

Method(op, name, a, b) == [op |-> op, name |-> name, a |-> a, b |-> b]

\* a method of the record stored under name ran and gave r
RecordCall(name, r) ==
    /\ book' = Stored(book, name, r.rec)
    /\ before' = book
    /\ outcome' = r.result
    /\ UNCHANGED <<pc, command, today, upcoming>>

ApiAddRecord(name) ==
    /\ book' = add_record(book, NewRecord(name))
    /\ before' = book
    /\ call' = Method("add_record", name, <<>>, <<>>)
    /\ outcome' = "ok"
    /\ UNCHANGED <<pc, command, today, upcoming>>

ApiDelete(name) ==
    /\ book' = delete(book, name)
    /\ before' = book
    /\ call' = Method("delete", name, <<>>, <<>>)
    /\ outcome' = "ok"
    /\ UNCHANGED <<pc, command, today, upcoming>>

ApiAddPhone(name, phone) ==
    /\ Has(book, name)
    /\ Len(find(book, name).phones) < MaxPhones
    /\ call' = Method("add_phone", name, phone, <<>>)
    /\ RecordCall(name, add_phone(find(book, name), phone))

ApiRemovePhone(name, phone) ==
    /\ Has(book, name)
    /\ call' = Method("remove_phone", name, phone, <<>>)
    /\ RecordCall(name, remove_phone(find(book, name), phone))

ApiEditPhone(name, old, new) ==
    /\ Has(book, name)
    /\ call' = Method("edit_phone", name, old, new)
    /\ RecordCall(name, edit_phone(find(book, name), old, new))

ApiAddBirthday(name, date) ==
    /\ Has(book, name)
    /\ call' = Method("add_birthday", name, date, <<>>)
    /\ RecordCall(name, add_birthday(find(book, name), date))

NextApi ==
    \/ \E name \in Names : ApiAddRecord(name)
    \/ \E name \in Names : ApiDelete(name)
    \/ \E name \in Names, phone \in PhoneInputs : ApiAddPhone(name, phone)
    \/ \E name \in Names, phone \in PhoneInputs : ApiRemovePhone(name, phone)
    \/ \E name \in Names, old \in PhoneInputs, new \in PhoneInputs : ApiEditPhone(name, old, new)
    \/ \E name \in Names, date \in DateInputs : ApiAddBirthday(name, date)

SpecApi == Init /\ [][NextApi]_vars

(***************************************************************************)
(* main(): the command loop.  pc is "loop" while the loop is about to read *)
(* a line, "exited" after the break, "crashed" after an exception left     *)
(* main().  args are the words after the first one of the line read.       *)
(* command, call, outcome, today and upcoming describe the last line read. *)
(***************************************************************************)
\* lines with too few or too many words for a handler that unpacks n of them
ArityProbe == {<<>>, <<Bob>>, <<Bob, P1>>, <<Bob, P1, P2>>}

WrongArity(n) == {args \in ArityProbe : Len(args) # n}

\* add <name> <phone>
AddArgs ==
    {<<n, p>> : n \in Names, p \in {P1, P2, PShort}} \cup WrongArity(2)

\* change <name> <old_phone> <new_phone>
ChangeArgs ==
    {<<n, old, new>> : n \in Names, old \in {P1, P2}, new \in {P2, PShort}}
      \cup WrongArity(3)

\* add-birthday <name> <date>
BirthdayArgs ==
    {<<n, d>> : n \in Names, d \in {DLeap, DNoSuchDay}} \cup WrongArity(2)

\* for the handlers that read no word after the first, or only the name
FewArgs == {<<>>} \cup {<<n>> : n \in Names}

\* the days on which the session's birthdays command is run
SessionTodays == {dt \in Todays : dt.month = 2 /\ dt.day = 25}

\* the handler printed its message and the loop goes on
Continue(word, what) ==
    /\ pc' = "loop"
    /\ command' = word
    /\ outcome' = what

\* an exception left the handler: nothing in main() catches it
Crash(word, exception) ==
    /\ pc' = "crashed"
    /\ command' = word
    /\ outcome' = exception

\* what a handler does with the result of a Record method it does not wrap
Unwrapped(word, result) ==
    IF result = "ok" THEN Continue(word, "ok") ELSE Crash(word, result)

\* user_input.split() gave no word: command, *args = [] raises ValueError
ReadBlank ==
    /\ pc = "loop"
    /\ Crash(NoCommand, "Unpack")
    /\ before' = book
    /\ call' = NoCall
    /\ UNCHANGED <<book, today, upcoming>>

CmdExit(word, args) ==
    /\ pc = "loop"
    /\ word \in {KwClose, KwExit}
    /\ pc' = "exited"
    /\ command' = word
    /\ outcome' = "bye"
    /\ before' = book
    /\ call' = NoCall
    /\ UNCHANGED <<book, today, upcoming>>

CmdHello(args) ==
    /\ pc = "loop"
    /\ Continue(KwHello, "ok")
    /\ before' = book
    /\ call' = NoCall
    /\ UNCHANGED <<book, today, upcoming>>

CmdAdd(args) ==
    /\ pc = "loop"
    /\ before' = book
    /\ UNCHANGED <<today, upcoming>>
    /\ IF Len(args) # 2
       THEN /\ Crash(KwAdd, "Unpack")
            /\ call' = NoCall
            /\ UNCHANGED book
       ELSE LET name == args[1]
                phone == args[2]
                data == IF Has(book, name) THEN book
                        ELSE add_record(book, NewRecord(name))
                r == add_phone(find(data, name), phone)
            IN
            /\ Len(find(data, name).phones) < MaxPhones
            /\ call' = Method("add_phone", name, phone, <<>>)
            /\ book' = Stored(data, name, r.rec)
            /\ Unwrapped(KwAdd, r.result)

CmdChange(args) ==
    /\ pc = "loop"
    /\ before' = book
    /\ UNCHANGED <<today, upcoming>>
    /\ IF Len(args) # 3
       THEN /\ Crash(KwChange, "Unpack")
            /\ call' = NoCall
            /\ UNCHANGED book
       ELSE IF Has(book, args[1])
       THEN LET r == edit_phone(find(book, args[1]), args[2], args[3]) IN
            /\ call' = Method("edit_phone", args[1], args[2], args[3])
            /\ book' = Stored(book, args[1], r.rec)
            /\ Unwrapped(KwChange, r.result)
       ELSE /\ Continue(KwChange, "ContactNotFound")
            /\ call' = NoCall
            /\ UNCHANGED book

\* Record has no show_phones: record.show_phones() raises AttributeError
CmdPhone(args) ==
    /\ pc = "loop"
    /\ before' = book
    /\ call' = NoCall
    /\ UNCHANGED <<book, today, upcoming>>
    /\ IF Len(args) = 0 THEN Crash(KwPhone, "IndexError")
       ELSE IF Has(book, args[1]) THEN Crash(KwPhone, "AttributeError")
       ELSE Continue(KwPhone, "ContactNotFound")

CmdAll(args) ==
    /\ pc = "loop"
    /\ Continue(KwAll, "ok")
    /\ before' = book
    /\ call' = NoCall
    /\ UNCHANGED <<book, today, upcoming>>

CmdAddBirthday(args) ==
    /\ pc = "loop"
    /\ before' = book
    /\ UNCHANGED <<today, upcoming>>
    /\ IF Len(args) # 2
       THEN /\ Crash(KwAddBirthday, "Unpack")
            /\ call' = NoCall
            /\ UNCHANGED book
       ELSE IF Has(book, args[1])
       THEN LET r == add_birthday(find(book, args[1]), args[2]) IN
            /\ call' = Method("add_birthday", args[1], args[2], <<>>)
            /\ book' = Stored(book, args[1], r.rec)
            /\ Unwrapped(KwAddBirthday, r.result)
       ELSE /\ Continue(KwAddBirthday, "ContactNotFound")
            /\ call' = NoCall
            /\ UNCHANGED book

\* show_birthday is wrapped by input_error: name, *_ = args raising is caught
CmdShowBirthday(args) ==
    /\ pc = "loop"
    /\ before' = book
    /\ call' = NoCall
    /\ UNCHANGED <<book, today, upcoming>>
    /\ IF Len(args) = 0 THEN Continue(KwShowBirthday, "Caught")
       ELSE IF Has(book, args[1]) THEN Continue(KwShowBirthday, "ok")
       ELSE Continue(KwShowBirthday, "ContactNotFound")

\* birthdays is wrapped by input_error: what get_upcoming_birthdays raises is caught
CmdBirthdays(args, now) ==
    /\ pc = "loop"
    /\ before' = book
    /\ call' = NoCall
    /\ today' = now
    /\ upcoming' = get_upcoming_birthdays(book, now)
    /\ Continue(KwBirthdays, IF upcoming'.raised THEN "Caught" ELSE "ok")
    /\ UNCHANGED book

CmdInvalid(word, args) ==
    /\ pc = "loop"
    /\ word \notin Keywords
    /\ Continue(word, "InvalidCommand")
    /\ before' = book
    /\ call' = NoCall
    /\ UNCHANGED <<book, today, upcoming>>

Next ==
    \/ ReadBlank
    \/ \E word \in {KwClose, KwExit}, args \in FewArgs : CmdExit(word, args)
    \/ \E args \in FewArgs : CmdHello(args)
    \/ \E args \in AddArgs : CmdAdd(args)
    \/ \E args \in ChangeArgs : CmdChange(args)
    \/ \E args \in FewArgs : CmdPhone(args)
    \/ \E args \in FewArgs : CmdAll(args)
    \/ \E args \in BirthdayArgs : CmdAddBirthday(args)
    \/ \E args \in FewArgs : CmdShowBirthday(args)
    \/ \E now \in SessionTodays : CmdBirthdays(<<>>, now)
    \/ \E word \in OtherWords, args \in FewArgs : CmdInvalid(word, args)

Spec == Init /\ [][Next]_vars

(***************************************************************************)
(* get_upcoming_birthdays as a function of the book and of the clock: the  *)
(* books are built by Record(name) and add_birthday from every string      *)
(* dd.mm.yyyy of a leap year, the clock is any day of FirstYear..LastYear. *)
(***************************************************************************)
BirthYears == {2000}

BirthdayStrings ==
    {Pad2(d) \o <<".">> \o Pad2(m) \o <<".">> \o Pad4(y) :
        d \in 1..31, m \in 1..12, y \in BirthYears}

\* Record(name), then add_birthday(date) whatever it raises
RecordBorn(name, date) == add_birthday(NewRecord(name), date).rec

\* the birthdays around the end of February, for the books of two records
AroundLeapDay ==
    {s \in BirthdayStrings :
        \/ MonthOf(s) = 2 /\ DayOf(s) >= 24
        \/ MonthOf(s) = 3 /\ DayOf(s) <= 2}

BirthdayBooks ==
    {<<RecordBorn(Bob, s)>> : s \in BirthdayStrings}
      \cup {<<RecordBorn(Ann, s), RecordBorn(Bob, t)>> : s \in AroundLeapDay, t \in AroundLeapDay}

InitBirthdays ==
    /\ book \in BirthdayBooks
    /\ before = book
    /\ pc = "loop"
    /\ command = NoCommand
    /\ outcome = "none"
    /\ call = NoCall
    /\ today = NoDate
    /\ upcoming = NoResult

\* book.get_upcoming_birthdays() on the day now
GetUpcomingBirthdays(now) ==
    /\ call = NoCall
    /\ call' = Method("get_upcoming_birthdays", <<>>, <<>>, <<>>)
    /\ today' = now
    /\ upcoming' = get_upcoming_birthdays(book, now)
    /\ outcome' = IF upcoming'.raised THEN "ValueError" ELSE "ok"
    /\ UNCHANGED <<book, before, pc, command>>

NextBirthdays == \E now \in Todays : GetUpcomingBirthdays(now)

SpecBirthdays == InitBirthdays /\ [][NextBirthdays]_vars

(***************************************************************************)
(* The properties.                                                         *)
(***************************************************************************)
\* a string of exactly ten decimal digits
TenDigits(s) ==
    /\ Len(s) = 10
    /\ \A k \in 1..Len(s) : s[k] \in {"0", "1", "2", "3", "4", "5", "6", "7", "8", "9", "U+0663"}

\* the positions of the records named name
Entries(data, name) == {i \in DOMAIN data : data[i].name = name}

\* the record the last call was made on, as it was before the call
Target == before[CHOOSE i \in DOMAIN before : before[i].name = call.name]

Holds(phones, value) == \E j \in DOMAIN phones : phones[j] = value

\* the errors a command's operation fails with
OperationErrors == {"InvalidPhone", "PhoneNotFound", "InvalidDateFormat", "InvalidDate"}

\* C1: a command of the session loop (add, change, add-birthday) that fails
\* with an error leaves the Address Book as it was before the command.
C1_FailedCommandLeavesBook ==
    (command \in {KwAdd, KwChange, KwAddBirthday} /\ outcome \in OperationErrors)
        => book = before

\* C2: the session ends only when the command read is close or exit; a
\* command that raises an error is followed by the loop reading the next one.
C2_SessionEndsOnlyOnExit ==
    (pc # "loop" /\ command # NoCommand) => (pc = "exited" /\ command \in {KwClose, KwExit})

C7_AddAppends ==
    /\ \A i, j \in DOMAIN book : book[i].name = book[j].name => i = j
    /\ (command = KwAdd /\ outcome = "ok") =>
          /\ Cardinality(Entries(book, call.name)) = 1
          /\ IF Entries(before, call.name) # {}
             THEN /\ Len(book) = Len(before)
                  /\ \A i \in DOMAIN before :
                        IF before[i].name = call.name
                        THEN book[i] = [before[i] EXCEPT !.phones = Append(@, call.a)]
                        ELSE book[i] = before[i]
             ELSE book = Append(before, [name |-> call.name, phones |-> <<call.a>>,
                                         birthday |-> NoBirthday])

\* the same phone was added a second time to one of two records
C7_Witness ==
    /\ command = KwAdd
    /\ outcome = "ok"
    /\ Len(book) = 2
    /\ \E i \in DOMAIN book :
          /\ book[i].name = call.name
          /\ i \in DOMAIN before
          /\ before[i].phones = <<call.a>>
          /\ book[i].phones = <<call.a, call.a>>

\* C8: remove_phone(value) never raises, removes every stored phone equal to
\* value and keeps the others in order; with no phone equal to value the
\* record is unchanged, and a second call changes nothing more.
C8_RemovePhone ==
    call.op = "remove_phone" =>
        LET Kept(p) == p # call.a IN
        /\ outcome = "ok"
        /\ Len(book) = Len(before)
        /\ \A i \in DOMAIN before :
              IF before[i].name = call.name
              THEN book[i] = [before[i] EXCEPT !.phones = SelectSeq(@, Kept)]
              ELSE book[i] = before[i]
        /\ ~Holds(Target.phones, call.a) => book = before
        /\ Stored(book, call.name, remove_phone(find(book, call.name), call.a).rec) = book

\* both copies of a phone stored twice were removed
C8_Witness ==
    /\ call.op = "remove_phone"
    /\ Target.phones = <<call.a, call.a>>
    /\ \E i \in DOMAIN book : book[i].name = call.name /\ book[i].phones = <<>>

\* C9: when old is stored and new is a valid phone, edit_phone(old, new)
\* replaces the first occurrence of old only, in place: the length, every
\* other position, the name and the birthday are unchanged.
C9_EditReplacesFirst ==
    (call.op = "edit_phone" /\ Holds(Target.phones, call.a) /\ TenDigits(call.b)) =>
        LET first == CHOOSE j \in DOMAIN Target.phones :
                        /\ Target.phones[j] = call.a
                        /\ \A k \in 1..(j - 1) : Target.phones[k] # call.a
        IN
        /\ outcome = "ok"
        /\ Len(book) = Len(before)
        /\ \A i \in DOMAIN before :
              IF before[i].name = call.name
              THEN book[i] = [before[i] EXCEPT !.phones[first] = call.b]
              ELSE book[i] = before[i]

\* old was stored twice: the second copy is still there
C9_Witness ==
    /\ call.op = "edit_phone"
    /\ outcome = "ok"
    /\ call.a # call.b
    /\ Target.phones = <<call.a, call.a>>
    /\ \E i \in DOMAIN book : book[i].name = call.name /\ book[i].phones = <<call.b, call.a>>

\* the record's birthday falls on the k-th day after today
FallsOn(rec, k) ==
    /\ PlusDays(today, k).day = DayOf(rec.birthday)
    /\ PlusDays(today, k).month = MonthOf(rec.birthday)

\* days from today to the first occurrence of the birthday on or after today is at most n
Within(rec, n) == rec.birthday # NoBirthday /\ \E k \in 0..n : FallsOn(rec, k)

\* that first occurrence, for a record Within(rec, 7)
NextOccurrence(rec) ==
    PlusDays(today, CHOOSE k \in 0..7 : FallsOn(rec, k) /\ \A h \in 0..(k - 1) : ~FallsOn(rec, h))

Listed(rec) == \E l \in DOMAIN upcoming.lines : upcoming.lines[l].name = rec.name

\* C4: get_upcoming_birthdays lists a record if and only if it has a
\* birthday whose first occurrence on or after today is at most 7 days
\* away (0 and 7 days listed, 8 days not).
C4_ListedIffWithinWindow ==
    call.op = "get_upcoming_birthdays" =>
        \A i \in DOMAIN book : Listed(book[i]) <=> Within(book[i], 7)

\* C5: the date reported for a listed record is the next occurrence of
\* its birthday when that is a Monday to Friday, the Monday after when it is
\* a Saturday (+2) or a Sunday (+1); it is never a Saturday or Sunday, it
\* lies at most 9 days after today, and a birthday within the window that
\* falls on a weekend is listed all the same.
C5_WeekendShift ==
    call.op = "get_upcoming_birthdays" =>
        /\ \A l \in DOMAIN upcoming.lines :
              \E i \in DOMAIN book :
                 /\ book[i].name = upcoming.lines[l].name
                 /\ Within(book[i], 7)
                 /\ LET occurrence == NextOccurrence(book[i])
                        reported ==
                            CASE Weekday(occurrence) = 5 -> PlusDays(occurrence, 2)
                              [] Weekday(occurrence) = 6 -> PlusDays(occurrence, 1)
                              [] OTHER -> occurrence
                    IN
                    /\ upcoming.lines[l].date = Strftime(reported)
                    /\ Weekday(reported) \in 0..4
                    /\ DaysBetween(reported, today) \in 0..9
        /\ ~upcoming.raised =>
              \A i \in DOMAIN book :
                  (Within(book[i], 7) /\ Weekday(NextOccurrence(book[i])) \in {5, 6})
                      => Listed(book[i])
        \* 06.01.2024 is a Saturday: on 01.01.2024 it is reported as 08.01.2024
        /\ (today = Date(2024, 1, 1) /\ ~upcoming.raised) =>
              \A i \in DOMAIN book :
                  (book[i].birthday # NoBirthday
                     /\ DayOf(book[i].birthday) = 6 /\ MonthOf(book[i].birthday) = 1)
                  => \E l \in DOMAIN upcoming.lines :
                        upcoming.lines[l] =
                            [name |-> book[i].name,
                             date |-> <<"0", "8", ".", "0", "1", ".", "2", "0", "2", "4">>]

\* a Saturday birthday 7 days ahead is reported 9 days after today
C5_Witness ==
    /\ call.op = "get_upcoming_birthdays"
    /\ \E l \in DOMAIN upcoming.lines :
          /\ upcoming.lines[l].date = Strftime(PlusDays(today, 9))
          /\ Weekday(PlusDays(today, 7)) = 5

\* C10: on a book whose birthdays the Birthday validator accepted (29.02 of
\* a leap year included), get_upcoming_birthdays returns without raising,
\* whatever today is.
C10_NeverRaises ==
    call.op = "get_upcoming_birthdays" => ~upcoming.raised

\* C4 on the calls that return: listing is exactly the 7-day window
ListedIffWithinWindowWhenReturned ==
    (call.op = "get_upcoming_birthdays" /\ ~upcoming.raised) =>
        \A i \in DOMAIN book : Listed(book[i]) <=> Within(book[i], 7)

====
